---- MODULE Spec2Model ----
(***************************************************************************)
(* Model of the execution-trace-to-diagnostics pipeline and of the         *)
(* build-result helpers of hardhat v-next:                                  *)
(*   - encodeSolidityStackTrace and its synthesizers (src/unnamed/part_002) *)
(*   - throwIfSolidityBuildFailed, getArtifacts, getTestSuiteIds and        *)
(*     printErrorMessages                           (src/unnamed/part_001) *)
(*   - getAnalyticsClientId     (src/docs/sections/tabs/introduction.md)    *)
(*                                                                         *)
(* Optional JavaScript values (T | undefined) are sequences of length at    *)
(* most one: <<>> is undefined and <<v>> is the value v.                    *)
(***************************************************************************)
EXTENDS Integers, Sequences, FiniteSets, TLC

VARIABLES
    prepareStackTrace,  \* Error.prepareStackTrace, the process-wide hook
    callerStack,        \* the array a caller passes as previousStack
    last,               \* the most recent encodeSolidityStackTrace call
    prev,               \* the call before it
    synth,              \* the most recent single-frame synthesizer call
    build,              \* the most recent throwIfSolidityBuildFailed call
    helper,             \* the most recent getArtifacts, getTestSuiteIds or
                        \* printErrorMessages call
    analyticsFile,      \* the clientId stored in analytics.json, if it exists
    clients             \* the getAnalyticsClientId calls in progress

otherVars == <<helper, analyticsFile, clients>>

vars == <<prepareStackTrace, callerStack, last, prev, synth, build, helper, analyticsFile, clients>>

-----------------------------------------------------------------------------
(* Bounds of the model.                                                     *)

MaxTraceLen == 2
MaxNest == 1
MaxStackLen == 3
MaxArtifacts == 2
MaxCandidates == 2
MaxCalls == 3

-----------------------------------------------------------------------------
(* Optional values.                                                         *)

None == <<>>
Some(v) == <<v>>
IsSome(o) == o # <<>>
Get(o) == o[1]

-----------------------------------------------------------------------------
(* Numbers and bytes rendered as text.                                      *)

HexDigits == <<"0", "1", "2", "3", "4", "5", "6", "7",
               "8", "9", "a", "b", "c", "d", "e", "f">>

\* Buffer.from(bytes).toString("hex"): two lowercase digits per byte.
RECURSIVE BytesToHex(_)
BytesToHex(bytes) ==
    IF bytes = <<>> THEN ""
    ELSE HexDigits[(Head(bytes) \div 16) + 1] \o HexDigits[(Head(bytes) % 16) + 1]
         \o BytesToHex(Tail(bytes))

\* bytesToHexString of hardhat-utils: the hex dump with a 0x prefix.
bytesToHexString(bytes) == "0x" \o BytesToHex(bytes)

\* bigint.toString(16): no leading zeros.
RECURSIVE IntToHex(_)
IntToHex(n) ==
    IF n < 16 THEN HexDigits[n + 1]
    ELSE IntToHex(n \div 16) \o HexDigits[(n % 16) + 1]

-----------------------------------------------------------------------------
(* ReturnData of the EDR package (imported at part_002:10), at its boundary *)
(* with getMessageFromLastStackTraceEntry.  The payload is a byte sequence; *)
(* its selector is its first four bytes.                                    *)

ERROR_SELECTOR == <<8, 195, 121, 160>>     \* 0x08c379a0, Error(string)
PANIC_SELECTOR == <<78, 72, 123, 113>>     \* 0x4e487b71, Panic(uint256)

\* The printable ASCII characters, from code 32 (space) to code 126.  The
\* double quote (34), the backslash (92) and the backtick (96) are left out
\* of the alphabet of the model's payloads, their entries are placeholders.
PrintableAscii ==
    <<" ", "!", "?", "#", "$", "%", "&", "'", "(", ")", "*", "+",
      ",", "-", ".", "/", "0", "1", "2", "3", "4", "5", "6", "7",
      "8", "9", ":", ";", "<", "=", ">", "?", "@", "A", "B", "C",
      "D", "E", "F", "G", "H", "I", "J", "K", "L", "M", "N", "O",
      "P", "Q", "R", "S", "T", "U", "V", "W", "X", "Y", "Z", "[",
      "?", "]", "^", "_", "?", "a", "b", "c", "d", "e", "f", "g",
      "h", "i", "j", "k", "l", "m", "n", "o", "p", "q", "r", "s",
      "t", "u", "v", "w", "x", "y", "z", "{", "|", "}", "~">>

\* UTF-8 decoding of a byte sequence, None when a byte is outside the alphabet.
RECURSIVE BytesToText(_)
BytesToText(bytes) ==
    IF bytes = <<>> THEN Some("")
    ELSE LET b == Head(bytes)
             rest == BytesToText(Tail(bytes))
         IN IF b >= 32 /\ b <= 126 /\ b \notin {34, 92, 96} /\ IsSome(rest)
            THEN Some(PrintableAscii[b - 31] \o Get(rest))
            ELSE None

\* The value of a 32-byte big-endian word, None when it exceeds two bytes
\* (such a value is past the end of every payload of the model).
WordValue(w) ==
    IF Len(w) = 32 /\ \A i \in 1..30 : w[i] = 0
    THEN Some(w[31] * 256 + w[32])
    ELSE None

\* ABI decoding of (string): offset word, length word, the bytes.
AbiDecodeString(payload) ==
    IF Len(payload) < 32 THEN None
    ELSE LET off == WordValue(SubSeq(payload, 1, 32))
         IN IF ~IsSome(off) \/ Get(off) + 32 > Len(payload) THEN None
            ELSE LET len == WordValue(SubSeq(payload, Get(off) + 1, Get(off) + 32))
                 IN IF ~IsSome(len) \/ Get(off) + 32 + Get(len) > Len(payload)
                    THEN None
                    ELSE BytesToText(SubSeq(payload, Get(off) + 33,
                                            Get(off) + 32 + Get(len)))

\* ABI decoding of (uint256).
AbiDecodeUint(payload) ==
    IF Len(payload) < 32 THEN None ELSE WordValue(SubSeq(payload, 1, 32))

ReturnDataSelector(value) ==
    IF Len(value) >= 4 THEN Some(SubSeq(value, 1, 4)) ELSE None

ReturnDataPayload(value) == SubSeq(value, 5, Len(value))

isEmpty(value) == Len(value) = 0

\* The classification looks at the selector alone.
isErrorReturnData(value) == ReturnDataSelector(value) = Some(ERROR_SELECTOR)

isPanicReturnData(value) == ReturnDataSelector(value) = Some(PANIC_SELECTOR)

\* decodeError / decodePanic: [raised, value]; decoding a payload that is not
\* the ABI encoding of the selector's argument raises.
decodeError(value) ==
    IF isEmpty(value) THEN [raised |-> FALSE, value |-> Some("")]
    ELSE LET r == AbiDecodeString(ReturnDataPayload(value))
         IN [raised |-> ~IsSome(r), value |-> r]

decodePanic(value) ==
    LET r == AbiDecodeUint(ReturnDataPayload(value))
    IN [raised |-> ~IsSome(r), value |-> r]

-----------------------------------------------------------------------------
(* panic-errors.js: the panic code table and its message.                   *)

PanicCodes == {1, 17, 18, 33, 34, 49, 50, 65, 81}

panicErrorCodeToReason(errorCode) ==
    CASE errorCode = 1 -> Some("Assertion error")
      [] errorCode = 17 ->
           Some("Arithmetic operation overflowed outside of an unchecked block")
      [] errorCode = 18 -> Some("Division or modulo division by zero")
      [] errorCode = 33 ->
           Some("Tried to convert a value into an enum, but the value was too big or negative")
      [] errorCode = 34 -> Some("Incorrectly encoded storage byte array")
      [] errorCode = 49 -> Some(".pop() was called on an empty array")
      [] errorCode = 50 ->
           Some("Array accessed at an out-of-bounds or negative index")
      [] errorCode = 65 ->
           Some("Too much memory was allocated, or an array was created that is too large")
      [] errorCode = 81 ->
           Some("Called a zero-initialized variable of internal function type")
      [] OTHER -> None

panicErrorCodeToMessage(errorCode) ==
    LET reason == panicErrorCodeToReason(errorCode)
    IN IF IsSome(reason)
       THEN "reverted with panic code 0x" \o IntToHex(errorCode)
            \o " (" \o Get(reason) \o ")"
       ELSE "reverted with unknown panic code 0x" \o IntToHex(errorCode)

-----------------------------------------------------------------------------
(* solidity-stack-trace.js: the labels of the synthetic call-sites.         *)

CONSTRUCTOR_FUNCTION_NAME == "constructor"
PRECOMPILE_FUNCTION_NAME == "<precompile>"
UNKNOWN_FUNCTION_NAME == "<unknown>"
UNRECOGNIZED_CONTRACT_NAME == "<UnrecognizedContract>"
UNRECOGNIZED_FUNCTION_NAME == "<unrecognized-selector>"

-----------------------------------------------------------------------------
(* Call-Site Synthesizer.                                                   *)

\* new SolidityCallSite(_sourceName, _contract, _functionName, _line)
SolidityCallSite(sourceName, contract, functionName, line) ==
    [sourceName |-> sourceName, contract |-> contract,
     functionName |-> functionName, line |-> line]

\* Mutant: the function name is passed on without its default.
sourceReferenceToSolidityCallsite_NoDefault(sourceReference) ==
    SolidityCallSite(Some(sourceReference.sourceName),
                     sourceReference.contract, sourceReference.function,
                     sourceReference.line)

sourceReferenceToSolidityCallsite(sourceReference) ==
    SolidityCallSite(
        Some(sourceReference.sourceName),
        sourceReference.contract,
        IF IsSome(sourceReference.function)
        THEN sourceReference.function
        ELSE Some(UNKNOWN_FUNCTION_NAME),
        sourceReference.line)

\* The result is None where the switch falls through without a return.  The
\* sourceReference field of an entry is optional in some variants: it is an
\* optional value in every entry of the model, always present where the
\* variant requires it.
encodeStackTraceEntry(stackTraceEntry) ==
    LET type == stackTraceEntry.type
    IN CASE type \in {"UNRECOGNIZED_FUNCTION_WITHOUT_FALLBACK_ERROR",
                      "MISSING_FALLBACK_OR_RECEIVE_ERROR"} ->
              Some(sourceReferenceToSolidityCallsite(
                  [Get(stackTraceEntry.sourceReference)
                      EXCEPT !.function = Some(UNRECOGNIZED_FUNCTION_NAME)]))
         [] type \in {"CALLSTACK_ENTRY", "REVERT_ERROR", "CUSTOM_ERROR",
                      "FUNCTION_NOT_PAYABLE_ERROR", "INVALID_PARAMS_ERROR",
                      "FALLBACK_NOT_PAYABLE_ERROR",
                      "FALLBACK_NOT_PAYABLE_AND_NO_RECEIVE_ERROR",
                      "RETURNDATA_SIZE_ERROR",
                      "NONCONTRACT_ACCOUNT_CALLED_ERROR", "CALL_FAILED_ERROR",
                      "DIRECT_LIBRARY_CALL_ERROR"} ->
              Some(sourceReferenceToSolidityCallsite(
                  Get(stackTraceEntry.sourceReference)))
         [] type = "UNRECOGNIZED_CREATE_CALLSTACK_ENTRY" ->
              Some(SolidityCallSite(None, Some(UNRECOGNIZED_CONTRACT_NAME),
                                    Some(CONSTRUCTOR_FUNCTION_NAME), None))
         [] type = "UNRECOGNIZED_CONTRACT_CALLSTACK_ENTRY" ->
              Some(SolidityCallSite(
                  Some(bytesToHexString(stackTraceEntry.address)),
                  Some(UNRECOGNIZED_CONTRACT_NAME),
                  Some(UNKNOWN_FUNCTION_NAME), None))
         [] type = "PRECOMPILE_ERROR" ->
              Some(SolidityCallSite(
                  None,
                  Some("<PrecompileContract "
                       \o ToString(stackTraceEntry.precompile) \o ">"),
                  Some(PRECOMPILE_FUNCTION_NAME), None))
         [] type = "UNRECOGNIZED_CREATE_ERROR" ->
              Some(SolidityCallSite(None, Some(UNRECOGNIZED_CONTRACT_NAME),
                                    Some(CONSTRUCTOR_FUNCTION_NAME), None))
         [] type = "UNRECOGNIZED_CONTRACT_ERROR" ->
              Some(SolidityCallSite(
                  Some(bytesToHexString(stackTraceEntry.address)),
                  Some(UNRECOGNIZED_CONTRACT_NAME),
                  Some(UNKNOWN_FUNCTION_NAME), None))
         [] type = "INTERNAL_FUNCTION_CALLSTACK_ENTRY" ->
              Some(SolidityCallSite(
                  Some(Get(stackTraceEntry.sourceReference).sourceName),
                  Get(stackTraceEntry.sourceReference).contract,
                  Some("internal@" \o ToString(stackTraceEntry.pc)),
                  None))
         [] type = "CONTRACT_CALL_RUN_OUT_OF_GAS_ERROR" ->
              IF IsSome(stackTraceEntry.sourceReference)
              THEN Some(sourceReferenceToSolidityCallsite(
                       Get(stackTraceEntry.sourceReference)))
              ELSE Some(SolidityCallSite(None, Some(UNRECOGNIZED_CONTRACT_NAME),
                                         Some(UNKNOWN_FUNCTION_NAME), None))
         [] type \in {"OTHER_EXECUTION_ERROR", "CONTRACT_TOO_LARGE_ERROR",
                      "PANIC_ERROR", "UNMAPPED_SOLC_0_6_3_REVERT_ERROR"} ->
              IF ~IsSome(stackTraceEntry.sourceReference)
              THEN Some(SolidityCallSite(None, Some(UNRECOGNIZED_CONTRACT_NAME),
                                         Some(UNKNOWN_FUNCTION_NAME), None))
              ELSE Some(sourceReferenceToSolidityCallsite(
                       Get(stackTraceEntry.sourceReference)))
         [] OTHER -> None

-----------------------------------------------------------------------------
(* Message Synthesizer.  The result is [raised, msg]: raised when decoding  *)
(* the return data raises, msg = None when the switch matches no case.      *)

Returned(msg) == [raised |-> FALSE, msg |-> msg]
Raised == [raised |-> TRUE, msg |-> None]

VM_EXCEPTION == "VM Exception while processing transaction: "

ReasonStringMessage(reason) ==
    VM_EXCEPTION \o "reverted with reason string '" \o reason \o "'"

PanicMessage(errorCode) == VM_EXCEPTION \o panicErrorCodeToMessage(errorCode)

CustomErrorMessage(value) ==
    VM_EXCEPTION
    \o "reverted with an unrecognized custom error (return data: 0x"
    \o BytesToHex(value) \o ")"

INVALID_OPCODE_MESSAGE == VM_EXCEPTION \o "invalid opcode"

WITHOUT_REASON_MESSAGE == "Transaction reverted without a reason string"

\* part_002:251-262
RevertErrorMessage(stackTraceEntry) ==
    LET returnData == stackTraceEntry.returnData
    IN IF isErrorReturnData(returnData)
       THEN LET d == decodeError(returnData)
            IN IF d.raised THEN Raised
               ELSE Returned(Some(ReasonStringMessage(Get(d.value))))
       ELSE IF stackTraceEntry.isInvalidOpcodeError
       THEN Returned(Some(INVALID_OPCODE_MESSAGE))
       ELSE Returned(Some(WITHOUT_REASON_MESSAGE))

\* Mutant: the unrecognized-error branch made a copy of the revert branch.
UnrecognizedErrorMessage_AsRevert(stackTraceEntry) ==
    RevertErrorMessage(stackTraceEntry)

\* part_002:226-249
UnrecognizedErrorMessage(stackTraceEntry) ==
    LET returnData == stackTraceEntry.returnData
    IN IF isErrorReturnData(returnData)
       THEN LET d == decodeError(returnData)
            IN IF d.raised THEN Raised
               ELSE Returned(Some(ReasonStringMessage(Get(d.value))))
       ELSE IF isPanicReturnData(returnData)
       THEN LET d == decodePanic(returnData)
            IN IF d.raised THEN Raised
               ELSE Returned(Some(PanicMessage(Get(d.value))))
       ELSE IF ~isEmpty(returnData)
       THEN Returned(Some(CustomErrorMessage(returnData)))
       ELSE IF stackTraceEntry.isInvalidOpcodeError
       THEN Returned(Some(INVALID_OPCODE_MESSAGE))
       ELSE Returned(Some(WITHOUT_REASON_MESSAGE))

getMessageFromLastStackTraceEntry(stackTraceEntry) ==
    LET type == stackTraceEntry.type
    IN CASE type = "PRECOMPILE_ERROR" ->
              Returned(Some("Transaction reverted: call to precompile "
                            \o ToString(stackTraceEntry.precompile)
                            \o " failed"))
         [] type = "FUNCTION_NOT_PAYABLE_ERROR" ->
              Returned(Some(
                  "Transaction reverted: non-payable function was called with value "
                  \o ToString(stackTraceEntry.value)))
         [] type = "INVALID_PARAMS_ERROR" ->
              Returned(Some(
                  "Transaction reverted: function was called with incorrect parameters"))
         [] type = "FALLBACK_NOT_PAYABLE_ERROR" ->
              Returned(Some(
                  "Transaction reverted: fallback function is not payable and was called with value "
                  \o ToString(stackTraceEntry.value)))
         [] type = "FALLBACK_NOT_PAYABLE_AND_NO_RECEIVE_ERROR" ->
              Returned(Some(
                  "Transaction reverted: there's no receive function, fallback function is not payable and was called with value "
                  \o ToString(stackTraceEntry.value)))
         [] type = "UNRECOGNIZED_FUNCTION_WITHOUT_FALLBACK_ERROR" ->
              Returned(Some(
                  "Transaction reverted: function selector was not recognized and there's no fallback function"))
         [] type = "MISSING_FALLBACK_OR_RECEIVE_ERROR" ->
              Returned(Some(
                  "Transaction reverted: function selector was not recognized and there's no fallback nor receive function"))
         [] type = "RETURNDATA_SIZE_ERROR" ->
              Returned(Some(
                  "Transaction reverted: function returned an unexpected amount of data"))
         [] type = "NONCONTRACT_ACCOUNT_CALLED_ERROR" ->
              Returned(Some(
                  "Transaction reverted: function call to a non-contract account"))
         [] type = "CALL_FAILED_ERROR" ->
              Returned(Some(
                  "Transaction reverted: function call failed to execute"))
         [] type = "DIRECT_LIBRARY_CALL_ERROR" ->
              Returned(Some("Transaction reverted: library was called directly"))
         [] type \in {"UNRECOGNIZED_CREATE_ERROR",
                      "UNRECOGNIZED_CONTRACT_ERROR"} ->
              UnrecognizedErrorMessage(stackTraceEntry)
         [] type = "REVERT_ERROR" -> RevertErrorMessage(stackTraceEntry)
         [] type = "PANIC_ERROR" ->
              Returned(Some(PanicMessage(stackTraceEntry.errorCode)))
         [] type = "CUSTOM_ERROR" ->
              Returned(Some(VM_EXCEPTION \o stackTraceEntry.message))
         [] type = "OTHER_EXECUTION_ERROR" ->
              Returned(Some(
                  "Transaction reverted and Hardhat couldn't infer the reason."))
         [] type = "UNMAPPED_SOLC_0_6_3_REVERT_ERROR" ->
              Returned(Some(
                  "Transaction reverted without a reason string and without a valid sourcemap provided by the compiler. Some line numbers may be off. We strongly recommend upgrading solc and always using revert reasons."))
         [] type = "CONTRACT_TOO_LARGE_ERROR" ->
              Returned(Some(
                  "Transaction reverted: trying to deploy a contract whose code is too large"))
         [] type = "CONTRACT_CALL_RUN_OUT_OF_GAS_ERROR" ->
              Returned(Some(
                  "Transaction reverted: contract call run out of gas and made the transaction revert"))
         [] OTHER -> Returned(None)

-----------------------------------------------------------------------------
(* The inputs of the model.                                                 *)

Word(n) == [i \in 1..32 |-> IF i = 32 THEN n % 256
                            ELSE IF i = 31 THEN n \div 256 ELSE 0]

PadRight(bytes) == bytes \o [i \in 1..(32 - Len(bytes)) |-> 0]

RD_Empty == <<>>
RD_ErrorBoom ==                           \* Error("boom")
    ERROR_SELECTOR \o Word(32) \o Word(4) \o PadRight(<<98, 111, 111, 109>>)
RD_ErrorEmptyReason == ERROR_SELECTOR \o Word(32) \o Word(0)   \* Error("")
RD_ErrorMalformed == ERROR_SELECTOR \o <<1, 2>>
RD_Panic11 == PANIC_SELECTOR \o Word(17)  \* Panic(0x11)
RD_Panic99 == PANIC_SELECTOR \o Word(153) \* Panic(0x99), no such code
RD_PanicMalformed == PANIC_SELECTOR
RD_Custom == <<222, 173, 190, 239, 0, 1>> \* 0xdeadbeef0001
RD_Short == <<1, 2, 3>>                   \* too short to hold a selector

ReturnDatas ==
    {RD_Empty, RD_ErrorBoom, RD_ErrorEmptyReason, RD_ErrorMalformed,
     RD_Panic11, RD_Panic99, RD_PanicMalformed, RD_Custom, RD_Short}

WellFormed(value) ==
    /\ isErrorReturnData(value) => ~decodeError(value).raised
    /\ isPanicReturnData(value) => ~decodePanic(value).raised

SourceReferences ==
    {[sourceName |-> "A.sol", contract |-> Some("A"),
      function |-> Some("f"), line |-> Some(10)],
     [sourceName |-> "B.sol", contract |-> Some("B"),
      function |-> None, line |-> Some(7)],
     [sourceName |-> "lib.sol", contract |-> None,
      function |-> Some("g"), line |-> None]}

OptionalSourceReferences == {None} \cup {Some(r) : r \in SourceReferences}

Addresses == {[i \in 1..20 |-> IF i = 20 THEN 171 ELSE 0],
              [i \in 1..20 |-> 17 * (i % 16)]}

Values == {0, 1000}
Precompiles == {1, 9}
ProgramCounters == {0, 66}
ErrorCodes == {1, 17, 50, 153}
CustomMessages == {"", "reverted with custom error 'E(1)'"}

SourceReferenceTypes ==
    {"CALLSTACK_ENTRY", "INVALID_PARAMS_ERROR", "RETURNDATA_SIZE_ERROR",
     "NONCONTRACT_ACCOUNT_CALLED_ERROR", "CALL_FAILED_ERROR",
     "DIRECT_LIBRARY_CALL_ERROR"}

OverrideTypes ==
    {"UNRECOGNIZED_FUNCTION_WITHOUT_FALLBACK_ERROR",
     "MISSING_FALLBACK_OR_RECEIVE_ERROR"}

ValueTypes ==
    {"FUNCTION_NOT_PAYABLE_ERROR", "FALLBACK_NOT_PAYABLE_ERROR",
     "FALLBACK_NOT_PAYABLE_AND_NO_RECEIVE_ERROR"}

CatchAllTypes ==
    {"OTHER_EXECUTION_ERROR", "CONTRACT_TOO_LARGE_ERROR",
     "UNMAPPED_SOLC_0_6_3_REVERT_ERROR"}

\* A tag outside the StackTraceEntryType enum, as a newer engine may emit.
UNKNOWN_ENTRY_TYPE == "UNKNOWN_ENTRY_TYPE"

AllEntries ==
    {[type |-> t, sourceReference |-> Some(r)] :
        t \in SourceReferenceTypes \cup OverrideTypes, r \in SourceReferences}
    \cup {[type |-> t, sourceReference |-> Some(r), value |-> v] :
        t \in ValueTypes, r \in SourceReferences, v \in Values}
    \cup {[type |-> "REVERT_ERROR", sourceReference |-> Some(r), returnData |-> d,
           isInvalidOpcodeError |-> b] :
        r \in SourceReferences, d \in ReturnDatas, b \in BOOLEAN}
    \cup {[type |-> "CUSTOM_ERROR", sourceReference |-> Some(r), message |-> m] :
        r \in SourceReferences, m \in CustomMessages}
    \cup {[type |-> "UNRECOGNIZED_CREATE_CALLSTACK_ENTRY"]}
    \cup {[type |-> "UNRECOGNIZED_CONTRACT_CALLSTACK_ENTRY", address |-> a] :
        a \in Addresses}
    \cup {[type |-> "PRECOMPILE_ERROR", precompile |-> p] : p \in Precompiles}
    \cup {[type |-> "UNRECOGNIZED_CREATE_ERROR", returnData |-> d,
           isInvalidOpcodeError |-> b] : d \in ReturnDatas, b \in BOOLEAN}
    \cup {[type |-> "UNRECOGNIZED_CONTRACT_ERROR", address |-> a,
           returnData |-> d, isInvalidOpcodeError |-> b] :
        a \in Addresses, d \in ReturnDatas, b \in BOOLEAN}
    \cup {[type |-> "INTERNAL_FUNCTION_CALLSTACK_ENTRY", sourceReference |-> Some(r),
           pc |-> pc] : r \in SourceReferences, pc \in ProgramCounters}
    \cup {[type |-> t, sourceReference |-> o] :
        t \in CatchAllTypes \cup {"CONTRACT_CALL_RUN_OUT_OF_GAS_ERROR"},
        o \in OptionalSourceReferences}
    \cup {[type |-> "PANIC_ERROR", errorCode |-> c, sourceReference |-> o] :
        c \in ErrorCodes, o \in OptionalSourceReferences}
    \cup {[type |-> UNKNOWN_ENTRY_TYPE]}

-----------------------------------------------------------------------------
(* Single-frame runs of the two synthesizers.                               *)

NoSynth == [op |-> "none"]

SynthesizeCallSite(entry) ==
    /\ synth' = [op |-> "encodeStackTraceEntry", entry |-> entry,
                 site |-> encodeStackTraceEntry(entry)]
    /\ UNCHANGED <<prepareStackTrace, callerStack, last, prev, build, otherVars>>

SynthesizeMessage(entry) ==
    /\ synth' = [op |-> "getMessageFromLastStackTraceEntry", entry |-> entry,
                 result |-> getMessageFromLastStackTraceEntry(entry)]
    /\ UNCHANGED <<prepareStackTrace, callerStack, last, prev, build, otherVars>>

-----------------------------------------------------------------------------
(* Build-Result Validator.                                                  *)

CACHE_HIT == "CACHE_HIT"
BUILD_SUCCESS == "BUILD_SUCCESS"
BUILD_FAILURE == "BUILD_FAILURE"

RootFilePaths == {"contracts/A.sol", "contracts/B.sol", "test/A.t.sol"}

FileBuildResults ==
    {[type |-> CACHE_HIT, buildId |-> "b1",
      contractArtifactsGenerated |-> <<"artifacts/A.json">>],
     [type |-> BUILD_SUCCESS, buildId |-> "b2",
      contractArtifactsGenerated |-> <<"artifacts/B.json", "artifacts/C.json">>],
     [type |-> BUILD_SUCCESS, buildId |-> "b1",
      contractArtifactsGenerated |-> <<>>],
     [type |-> BUILD_FAILURE]}

\* A Map<string, FileBuildResult>: its entries in insertion order, keys distinct.
ResultMaps ==
    {[entries |-> e] :
        e \in {q \in UNION {[1..n -> [key : RootFilePaths, value : FileBuildResults]] :
                               n \in 0..Cardinality(RootFilePaths)} :
                  \A i, j \in DOMAIN q : i # j => q[i].key # q[j].key}}

CompilationJobCreationErrors ==
    [reason : {"NO_COMPATIBLE_SOLC_VERSION_FOUND",
               "INCOMPATIBLE_OVERRIDEN_SOLC_VERSION"},
     formattedReason : {"No solc version enabled in this profile is compatible with this file.",
                        "An override with incompatible solc version was found for this file."},
     rootFilePath : {"contracts/A.sol", "test/A.t.sol"},
     buildProfile : {"default", "production"}]

SolidityBuildResults == ResultMaps \cup CompilationJobCreationErrors

MapValues(results) == {results.entries[i].value : i \in DOMAIN results.entries}
MapKeys(results) == {results.entries[i].key : i \in DOMAIN results.entries}

\* Mutant: some() in place of every().
sucessful_Some(results) ==
    \E v \in MapValues(results) : v.type = CACHE_HIT \/ v.type = BUILD_SUCCESS

\* [...results.values()].every(...)
sucessful(results) ==
    \A v \in MapValues(results) : v.type = CACHE_HIT \/ v.type = BUILD_SUCCESS

\* Mutant: the error carries the reason tag in place of the formatted reason.
throwIfSolidityBuildFailed_ReasonTag(results) ==
    IF "reason" \in DOMAIN results
    THEN Some([descriptor |-> "COMPILATION_JOB_CREATION_ERROR",
               messageArguments |->
                   [reason |-> results.reason,
                    rootFilePath |-> results.rootFilePath,
                    buildProfile |-> results.buildProfile]])
    ELSE IF ~sucessful(results)
    THEN Some([descriptor |-> "BUILD_FAILED"])
    ELSE None

\* The HardhatError thrown, None when the function returns.
throwIfSolidityBuildFailed(results) ==
    IF "reason" \in DOMAIN results
    THEN Some([descriptor |-> "COMPILATION_JOB_CREATION_ERROR",
               messageArguments |->
                   [reason |-> results.formattedReason,
                    rootFilePath |-> results.rootFilePath,
                    buildProfile |-> results.buildProfile]])
    ELSE IF ~sucessful(results)
    THEN Some([descriptor |-> "BUILD_FAILED"])
    ELSE None

\* The results object after the call: the function writes to nothing.
ResultsAfterValidation(results) == results

NoBuild == [called |-> FALSE]

Validate(results) ==
    /\ build' = [called |-> TRUE, before |-> results,
                 after |-> ResultsAfterValidation(results),
                 thrown |-> throwIfSolidityBuildFailed(results)]
    /\ UNCHANGED <<prepareStackTrace, callerStack, last, prev, synth, otherVars>>

-----------------------------------------------------------------------------
(* Stack-Trace Encoder.                                                     *)

\* Values of Error.prepareStackTrace: undefined, a hook installed by other
\* code, or the closure encodeSolidityStackTrace installs (part_002:29-48)
\* with the variables it captures; previousStack tells whether the call was
\* given the caller's array.
NoHook == [kind |-> "undefined"]
UserHook == [kind |-> "user", id |-> "source-map-support"]

EncodeHook(previousPrepareStackTrace, stackTrace, previousStack) ==
    [kind |-> "encode",
     previousPrepareStackTrace |-> previousPrepareStackTrace,
     stackTrace |-> stackTrace, previousStack |-> previousStack]

RECURSIVE NestDepth(_)
NestDepth(hook) ==
    IF hook.kind = "encode"
    THEN 1 + NestDepth(hook.previousPrepareStackTrace) ELSE 0

\* The structured frames V8 captured at new SolidityError(...).
NativeStack ==
    <<[native |-> "new SolidityError"],
      [native |-> "encodeSolidityStackTrace"],
      [native |-> "caller"]>>

\* The array a caller holds and may pass as previousStack.
CallerFrames == <<[native |-> "caller"]>>

IsSolidityCallSite(site) == "sourceName" \in DOMAIN site

\* stack.splice(0, 1)
Spliced(stack) == IF stack = <<>> THEN stack ELSE Tail(stack)

\* The call-sites of the entries that have one, in trace order.
RECURSIVE CallSites(_)
CallSites(stackTrace) ==
    IF stackTrace = <<>> THEN <<>>
    ELSE LET callsite == encodeStackTraceEntry(Head(stackTrace))
         IN (IF IsSome(callsite) THEN <<Get(callsite)>> ELSE <<>>)
            \o CallSites(Tail(stackTrace))

\* Mutant: the loop starts at the second entry.
Unshifted_SkipFirst(stackTrace, stack) ==
    LET sites == CallSites(Tail(stackTrace))
    IN [i \in 1..Len(sites) |-> sites[Len(sites) + 1 - i]] \o stack

\* Mutant: the call-sites are put before the stack in trace order.
Unshifted_InOrder(stackTrace, stack) == CallSites(stackTrace) \o stack

\* for (const entry of stackTrace) { ...; stack.unshift(callsite); }
RECURSIVE Unshifted(_, _)
Unshifted(stackTrace, stack) ==
    IF stackTrace = <<>> THEN stack
    ELSE LET callsite == encodeStackTraceEntry(Head(stackTrace))
         IN Unshifted(Tail(stackTrace),
                      IF ~IsSome(callsite) THEN stack
                      ELSE <<Get(callsite)>> \o stack)

\* The body of the temporary hook up to the delegation (part_002:30-44), run
\* on the array `stack`; `shared` is the caller's array and `aliased` tells
\* whether `stack` is that very array.
HookStack(hook, stack, shared, aliased) ==
    IF hook.previousStack
    THEN LET s == Unshifted(hook.stackTrace, shared)
         IN [stack |-> s, shared |-> s, aliased |-> TRUE]
    ELSE LET s == Unshifted(hook.stackTrace, Spliced(stack))
         IN [stack |-> s, shared |-> IF aliased THEN s ELSE shared,
             aliased |-> aliased]

\* Calling a value of Error.prepareStackTrace on (error, stack): [raised,
\* rendered, shared].  Calling undefined raises a TypeError; a hook of other
\* code renders the frames it is given.
RECURSIVE CallHook(_, _, _, _)
CallHook(hook, stack, shared, aliased) ==
    CASE hook.kind = "undefined" ->
            [raised |-> TRUE, rendered |-> None, shared |-> shared]
      [] hook.kind = "user" ->
            [raised |-> FALSE,
             rendered |-> Some([by |-> hook.id, frames |-> stack]),
             shared |-> shared]
      [] hook.kind = "encode" ->
            LET h == HookStack(hook, stack, shared, aliased)
            IN CallHook(hook.previousPrepareStackTrace,
                        h.stack, h.shared, h.aliased)

\* Mutant: the message is synthesized from the first entry.
LastEntry_First(stackTrace) == stackTrace[1]

\* stackTrace[stackTrace.length - 1]
LastEntry(stackTrace) == stackTrace[Len(stackTrace)]

\* Mutant: no fallback when the synthesizer yields nothing.
ErrorMessage_NoFallback(msg, fallbackMessage) ==
    IF IsSome(msg) THEN Get(msg) ELSE ""

\* msg !== undefined ? msg : fallbackMessage
ErrorMessage(msg, fallbackMessage) ==
    IF IsSome(msg) THEN Get(msg) ELSE fallbackMessage

\* part_002:62, reached when nothing before it raised.
RestoredHook(previousPrepareStackTrace, hook) == previousPrepareStackTrace

\* The value of Error.prepareStackTrace when the call is left by an exception.
HookAfterRaise(previousPrepareStackTrace, hook) == hook

NoCall == [called |-> FALSE]

CallRecord(fallbackMessage, stackTrace, passPrevious, outcome, message, usedFallback, handed, stack) ==
    [called |-> TRUE, fallbackMessage |-> fallbackMessage,
     stackTrace |-> stackTrace, passPrevious |-> passPrevious,
     hookBefore |-> prepareStackTrace, callerBefore |-> callerStack,
     outcome |-> outcome, message |-> message, usedFallback |-> usedFallback,
     handed |-> handed, stack |-> stack]

\* One call encodeSolidityStackTrace(fallbackMessage, stackTrace, previousStack),
\* previousStack being the caller's array when passPrevious and undefined
\* otherwise.
encodeSolidityStackTrace(fallbackMessage, stackTrace, passPrevious) ==
    LET previousPrepareStackTrace == prepareStackTrace
        hook == EncodeHook(previousPrepareStackTrace, stackTrace, passPrevious)
        m == getMessageFromLastStackTraceEntry(LastEntry(stackTrace))
        h == HookStack(hook, NativeStack, callerStack, FALSE)
        r == CallHook(hook, NativeStack, callerStack, FALSE)
    IN IF m.raised
       THEN /\ prepareStackTrace' =
                   HookAfterRaise(previousPrepareStackTrace, hook)
            /\ callerStack' = callerStack
            /\ last' = CallRecord(fallbackMessage, stackTrace, passPrevious,
                                  "raised", "", FALSE, None, None)
       ELSE IF r.raised
       THEN /\ prepareStackTrace' =
                   HookAfterRaise(previousPrepareStackTrace, hook)
            /\ callerStack' = r.shared
            /\ last' = CallRecord(fallbackMessage, stackTrace, passPrevious,
                                  "raised", "", FALSE,
                                  IF previousPrepareStackTrace.kind = "undefined"
                                  THEN None ELSE Some(h.stack),
                                  None)
       ELSE /\ prepareStackTrace' =
                   RestoredHook(previousPrepareStackTrace, hook)
            /\ callerStack' = r.shared
            /\ last' = CallRecord(fallbackMessage, stackTrace, passPrevious,
                                  "returned",
                                  ErrorMessage(m.msg, fallbackMessage),
                                  ~IsSome(m.msg), Some(h.stack), r.rendered)

\* The entries the traces of the model are made of: a panic with a source
\* reference, a call-stack entry (no message rule), an entry of an unknown
\* type and a revert whose return data cannot be decoded.
E_Panic ==
    [type |-> "PANIC_ERROR", errorCode |-> 17,
     sourceReference |-> Some([sourceName |-> "A.sol", contract |-> Some("A"),
                               function |-> Some("f"), line |-> Some(10)])]
E_Call ==
    [type |-> "CALLSTACK_ENTRY",
     sourceReference |-> Some([sourceName |-> "B.sol", contract |-> Some("B"),
                               function |-> None, line |-> Some(7)])]
E_Unknown == [type |-> UNKNOWN_ENTRY_TYPE]
E_Malformed ==
    [type |-> "REVERT_ERROR",
     sourceReference |-> Some([sourceName |-> "C.sol", contract |-> Some("C"),
                               function |-> Some("h"), line |-> Some(3)]),
     returnData |-> RD_ErrorMalformed, isInvalidOpcodeError |-> FALSE]

\* The last entry of a trace is the failure point, the entries before it are
\* the calls that led to it.
LastEntries == {E_Panic, E_Call, E_Unknown, E_Malformed}
CallEntries == {E_Call}

\* The non-empty traces of at most MaxTraceLen entries.
StackTraces ==
    {calls \o <<e>> :
        calls \in UNION {[1..n -> CallEntries] : n \in 0..(MaxTraceLen - 1)},
        e \in LastEntries}

FallbackMessages == {"", "Transaction failed"}

Hooks == {NoHook, UserHook}

\* Encode is called while the model's bounds allow it: at most MaxNest hooks
\* left behind by earlier calls, and a caller's array of at most MaxStackLen
\* frames after the call.
Encode(fallbackMessage, stackTrace, passPrevious) ==
    /\ ~last.called
    /\ NestDepth(prepareStackTrace) <= MaxNest
    /\ encodeSolidityStackTrace(fallbackMessage, stackTrace, passPrevious)
    /\ Len(callerStack') <= MaxStackLen
    /\ UNCHANGED <<prev, synth, build, otherVars>>

\* The caller is done with the outcome of the call.
Discard ==
    /\ last.called
    /\ last' = NoCall
    /\ prev' = NoCall
    /\ UNCHANGED <<prepareStackTrace, callerStack, synth, build, otherVars>>

\* A second call right after a first, with the same fallback message and the
\* same last entry; the first call is remembered.
EncodeAgain(fallbackMessage, stackTrace, passPrevious) ==
    /\ last.called
    /\ ~prev.called
    /\ fallbackMessage = last.fallbackMessage
    /\ stackTrace[Len(stackTrace)] = last.stackTrace[Len(last.stackTrace)]
    /\ NestDepth(prepareStackTrace) <= MaxNest
    /\ encodeSolidityStackTrace(fallbackMessage, stackTrace, passPrevious)
    /\ Len(callerStack') <= MaxStackLen
    /\ prev' = last
    /\ UNCHANGED <<synth, build, otherVars>>

-----------------------------------------------------------------------------
(* Artifact Aggregator.                                                     *)

\* The files readJsonFile finds: the artifacts the build wrote and the
\* build-info files under artifacts/build-info; None for a path with no file,
\* on which readJsonFile raises.
ArtifactFile(artifactPath) ==
    CASE artifactPath = "artifacts/A.json" ->
            Some([contractName |-> "A", abi |-> <<"f()">>,
                  bytecode |-> "0x60", deployedBytecode |-> "0x61"])
      [] artifactPath = "artifacts/B.json" ->
            Some([contractName |-> "B", abi |-> <<>>,
                  bytecode |-> "0x62", deployedBytecode |-> "0x63"])
      [] artifactPath = "artifacts/C.json" ->
            Some([contractName |-> "C", abi |-> <<"g()", "h()">>,
                  bytecode |-> "0x64", deployedBytecode |-> "0x65"])
      [] OTHER -> None

BuildInfoFile(buildInfoPath) ==
    CASE buildInfoPath = "artifacts/build-info/b1.json" ->
            Some([solcVersion |-> "0.8.24"])
      [] buildInfoPath = "artifacts/build-info/b2.json" ->
            Some([solcVersion |-> "0.8.28"])
      [] OTHER -> None

ArtifactsRootPaths == {"artifacts", "cache"}

\* path.join(artifactsRootPath, "build-info", `${buildId}.json`), on
\* segments that need no normalisation.
BuildInfoPath(artifactsRootPath, buildId) ==
    artifactsRootPath \o "/" \o "build-info" \o "/" \o buildId \o ".json"

\* JSON.stringify(artifact.abi): the text of the value, not the value.
JSONStringify(value) == [json |-> value]

\* The map entries getArtifacts accepts: no failed file.
SuccessfulResultMaps == {results \in ResultMaps : sucessful(results)}

\* The inner loop over result.contractArtifactsGenerated, from the paths
\* still to read: [raised, artifacts].
RECURSIVE ArtifactsOfPaths(_, _, _, _)
ArtifactsOfPaths(source, result, paths, artifactsRootPath) ==
    IF paths = <<>> THEN [raised |-> FALSE, artifacts |-> <<>>]
    ELSE LET artifact == ArtifactFile(Head(paths))
             buildInfo == BuildInfoFile(BuildInfoPath(artifactsRootPath,
                                                      result.buildId))
         IN IF ~IsSome(artifact) \/ ~IsSome(buildInfo)
            THEN [raised |-> TRUE, artifacts |-> <<>>]
            ELSE LET id == [name |-> Get(artifact).contractName,
                            solcVersion |-> Get(buildInfo).solcVersion,
                            source |-> source]
                     contract ==
                         [abi |-> JSONStringify(Get(artifact).abi),
                          bytecode |-> Get(artifact).bytecode,
                          deployedBytecode |-> Get(artifact).deployedBytecode]
                     rest == ArtifactsOfPaths(source, result, Tail(paths),
                                              artifactsRootPath)
                 IN IF rest.raised THEN rest
                    ELSE [raised |-> FALSE,
                          artifacts |->
                              <<[id |-> id, contract |-> contract]>>
                                  \o rest.artifacts]

\* The outer loop over results.entries().
RECURSIVE ArtifactsOfEntries(_, _)
ArtifactsOfEntries(entries, artifactsRootPath) ==
    IF entries = <<>> THEN [raised |-> FALSE, artifacts |-> <<>>]
    ELSE LET first ==
                 ArtifactsOfPaths(Head(entries).key, Head(entries).value,
                                  Head(entries).value.contractArtifactsGenerated,
                                  artifactsRootPath)
             rest == ArtifactsOfEntries(Tail(entries), artifactsRootPath)
         IN IF first.raised THEN first
            ELSE IF rest.raised THEN rest
            ELSE [raised |-> FALSE,
                  artifacts |-> first.artifacts \o rest.artifacts]

IsBuildSuccess(entry) == entry.value.type = BUILD_SUCCESS

\* Mutant: only the files built in this run contribute, cache hits do not.
getArtifacts_SkipCacheHits(results, artifactsRootPath) ==
    ArtifactsOfEntries(SelectSeq(results.entries, IsBuildSuccess),
                       artifactsRootPath)

getArtifacts(results, artifactsRootPath) ==
    ArtifactsOfEntries(results.entries, artifactsRootPath)

NoHelper == [op |-> "none"]

Aggregate(results, artifactsRootPath) ==
    /\ helper' = [op |-> "getArtifacts", results |-> results,
                  artifactsRootPath |-> artifactsRootPath,
                  outcome |-> getArtifacts(results, artifactsRootPath)]
    /\ UNCHANGED <<prepareStackTrace, callerStack, last, prev, synth, build, analyticsFile, clients>>

-----------------------------------------------------------------------------
(* Test-Suite Selector.  Paths are sequences of characters.                 *)

T_SOL_SUFFIX == <<".", "t", ".", "s", "o", "l">>

\* p.endsWith(suffix)
EndsWith(p, suffix) ==
    /\ Len(p) >= Len(suffix)
    /\ SubSeq(p, Len(p) - Len(suffix) + 1, Len(p)) = suffix

\* The segments of a path between its separators, empty segments dropped.
RECURSIVE SplitPath(_, _)
SplitPath(p, segment) ==
    IF p = <<>> THEN (IF segment = <<>> THEN <<>> ELSE <<segment>>)
    ELSE IF Head(p) = "/"
    THEN (IF segment = <<>> THEN <<>> ELSE <<segment>>)
         \o SplitPath(Tail(p), <<>>)
    ELSE SplitPath(Tail(p), Append(segment, Head(p)))

RECURSIVE JoinPath(_)
JoinPath(segments) ==
    IF segments = <<>> THEN <<>>
    ELSE IF Len(segments) = 1 THEN segments[1]
    ELSE segments[1] \o <<"/">> \o JoinPath(Tail(segments))

RECURSIVE CommonPrefixLength(_, _)
CommonPrefixLength(a, b) ==
    IF a = <<>> \/ b = <<>> \/ Head(a) # Head(b) THEN 0
    ELSE 1 + CommonPrefixLength(Tail(a), Tail(b))

\* path.relative(from, to) on absolute POSIX paths: one ".." for every
\* segment of `from` below the common directory, then the rest of `to`.
PathRelative(from, to) ==
    LET f == SplitPath(from, <<>>)
        t == SplitPath(to, <<>>)
        k == CommonPrefixLength(f, t)
    IN JoinPath([i \in 1..(Len(f) - k) |-> <<".", ".">>]
                \o SubSeq(t, k + 1, Len(t)))

P_Root == <<"/", "p">>
P_RootSlash == <<"/", "p", "/">>
P_ATest == <<"/", "p", "/", "a", ".", "t", ".", "s", "o", "l">>
P_B == <<"/", "p", "/", "b", ".", "s", "o", "l">>
P_TSol == <<"/", "p", "/", "t", ".", "s", "o", "l">>
P_OutTest == <<"/", "q", "/", "a", ".", "t", ".", "s", "o", "l">>
S_ATest == <<"a", ".", "t", ".", "s", "o", "l">>
S_B == <<"b", ".", "s", "o", "l">>
S_TSol == <<"t", ".", "s", "o", "l">>
S_OutTest == <<".", ".", "/", "q", "/", "a", ".", "t", ".", "s", "o", "l">>

ProjectRoots == {P_Root, P_RootSlash}
CandidatePaths == {P_ATest, P_B, P_TSol, P_OutTest}
ArtifactSources == {S_ATest, S_B, S_TSol, S_OutTest}

EdrArtifacts ==
    [id : [name : {"ATest"}, solcVersion : {"0.8.24"},
           source : ArtifactSources],
     contract : {[abi |-> JSONStringify(<<>>), bytecode |-> "0x60",
                  deployedBytecode |-> "0x61"]}]

HasTestSuffix(p) == EndsWith(p, T_SOL_SUFFIX)

\* rootFilePaths.filter(endsWith(".t.sol")).map(relative to projectRoot)
TestSources(rootFilePaths, projectRoot) ==
    LET tests == SelectSeq(rootFilePaths, HasTestSuffix)
    IN [i \in DOMAIN tests |-> PathRelative(projectRoot, tests[i])]

\* Mutant: every candidate path counts as a test file.
TestSources_NoSuffixFilter(rootFilePaths, projectRoot) ==
    [i \in DOMAIN rootFilePaths |-> PathRelative(projectRoot, rootFilePaths[i])]

Includes(sequence, value) == \E i \in DOMAIN sequence : sequence[i] = value

\* Mutant: the suffix filter is left out.
getTestSuiteIds_NoSuffixFilter(artifacts, rootFilePaths, projectRoot) ==
    LET testSources == TestSources_NoSuffixFilter(rootFilePaths, projectRoot)
        ids == [i \in DOMAIN artifacts |-> artifacts[i].id]
    IN SelectSeq(ids, LAMBDA id : Includes(testSources, id.source))

getTestSuiteIds(artifacts, rootFilePaths, projectRoot) ==
    LET testSources == TestSources(rootFilePaths, projectRoot)
        ids == [i \in DOMAIN artifacts |-> artifacts[i].id]
    IN SelectSeq(ids, LAMBDA id : Includes(testSources, id.source))

\* One call per run of the model (the function is pure), on any artifacts,
\* candidate paths and project root.
SelectTestSuiteIds ==
    /\ helper = NoHelper
    /\ \E artifacts \in UNION {[1..n -> EdrArtifacts] : n \in 0..MaxArtifacts},
          rootFilePaths \in UNION {[1..n -> CandidatePaths] : n \in 0..MaxCandidates},
          projectRoot \in ProjectRoots :
           helper' = [op |-> "getTestSuiteIds", artifacts |-> artifacts,
                      rootFilePaths |-> rootFilePaths,
                      projectRoot |-> projectRoot,
                      ids |-> getTestSuiteIds(artifacts, rootFilePaths,
                                              projectRoot)]
    /\ UNCHANGED <<prepareStackTrace, callerStack, last, prev, synth, build, analyticsFile, clients>>

-----------------------------------------------------------------------------
(* Error printer.  A message is a sequence of text fragments; a printed     *)
(* line is a record of the template it was built from and the values put   *)
(* into it.                                                                 *)

HARDHAT == "HARDHAT"
PLUGIN == "PLUGIN"
COMMUNITY_PLUGIN == "COMMUNITY_PLUGIN"
OTHER_CATEGORY == "OTHER"

REQUIRE_ESM_TEXT == "Cannot require() ES Module"

\* The values that can be thrown: HardhatErrors (with or without pluginId),
\* HardhatPluginErrors, other Errors and values that are not Errors.
HardhatErrors ==
    [class : {"HardhatError"}, pluginId : {None, Some("hardhat-viem")},
     errorCode : {"HHE1", "HHE404"},
     formattedMessage : {"Invalid config", "File not found"},
     stack : {Some("HardhatError: at main")}]

HardhatPluginErrors ==
    [class : {"HardhatPluginError"}, pluginId : {"my-plugin", "other-plugin"},
     message : {<<"plugin failed">>, <<"bad input">>},
     stack : {Some("HardhatPluginError: at plugin")}]

OtherErrors ==
    [class : {"Error"},
     code : {None, Some("ERR_REQUIRE_CYCLE_MODULE"), Some("ENOENT")},
     message : {<<"boom">>,
                <<REQUIRE_ESM_TEXT, " /p/hardhat.config.js in a cycle">>,
                <<"require() of ES Module is not supported">>},
     stack : {None, Some("Error: at script")}]

NonErrors == {[class |-> "string", value |-> "oops"],
              [class |-> "undefined"]}

ThrownValues == HardhatErrors \cup HardhatPluginErrors \cup OtherErrors \cup NonErrors

InstanceOfError(error) ==
    error.class \in {"HardhatError", "HardhatPluginError", "Error"}

\* error.message.includes(text)
MessageIncludes(message, text) == \E i \in DOMAIN message : message[i] = text

isRequireESMError(error) ==
    /\ InstanceOfError(error)
    /\ "code" \in DOMAIN error
    /\ error.code = Some("ERR_REQUIRE_CYCLE_MODULE")
    /\ MessageIncludes(error.message, REQUIRE_ESM_TEXT)

getErrorWithCategory(error) ==
    IF error.class = "HardhatError"
    THEN IF error.pluginId = None
         THEN [category |-> HARDHAT, categorizedError |-> error]
         ELSE [category |-> PLUGIN, categorizedError |-> error]
    ELSE IF error.class = "HardhatPluginError"
    THEN [category |-> COMMUNITY_PLUGIN, categorizedError |-> error]
    ELSE [category |-> OTHER_CATEGORY, categorizedError |-> error]

getErrorMessages(error) ==
    LET c == getErrorWithCategory(error)
        category == c.category
        categorizedError == c.categorizedError
    IN CASE category = HARDHAT ->
              [formattedErrorMessage |->
                   [line |-> "formattedErrorMessage", category |-> category,
                    errorCode |-> Some(categorizedError.errorCode),
                    pluginId |-> None,
                    message |-> <<categorizedError.formattedMessage>>],
               showMoreInfoMessage |->
                   Some([line |-> "showMoreInfoMessage",
                         errorCode |-> Some(categorizedError.errorCode)]),
               postErrorStackTraceMessage |-> None]
         [] category = PLUGIN ->
              [formattedErrorMessage |->
                   [line |-> "formattedErrorMessage", category |-> category,
                    errorCode |-> Some(categorizedError.errorCode),
                    pluginId |-> categorizedError.pluginId,
                    message |-> <<categorizedError.formattedMessage>>],
               showMoreInfoMessage |->
                   Some([line |-> "showMoreInfoMessage",
                         errorCode |-> Some(categorizedError.errorCode)]),
               postErrorStackTraceMessage |-> None]
         [] category = COMMUNITY_PLUGIN ->
              [formattedErrorMessage |->
                   [line |-> "formattedErrorMessage", category |-> category,
                    errorCode |-> None,
                    pluginId |-> Some(categorizedError.pluginId),
                    message |-> categorizedError.message],
               showMoreInfoMessage |->
                   Some([line |-> "showMoreInfoMessage", errorCode |-> None]),
               postErrorStackTraceMessage |-> None]
         [] category = OTHER_CATEGORY ->
              [formattedErrorMessage |->
                   [line |-> "formattedErrorMessage", category |-> category,
                    errorCode |-> None, pluginId |-> None,
                    message |-> <<"An unexpected error occurred:">>],
               showMoreInfoMessage |-> None,
               postErrorStackTraceMessage |->
                   Some([line |-> "postErrorStackTraceMessage"])]

\* print(`Hardhat only supports ESM projects. ...`)
printEsmOnlyErrorMessage == <<[line |-> "esmOnlyErrorMessage"]>>

EmptyLine == [line |-> "empty"]

\* error instanceof Error ? `${error.stack}` : `${util.inspect(error)}`
StackTraceLine(error) ==
    IF InstanceOfError(error)
    THEN [line |-> "stackTrace",
          text |-> IF IsSome(error.stack) THEN Get(error.stack)
                   ELSE "undefined"]
    ELSE [line |-> "stackTrace", inspected |-> error]

\* The lines handed to print, in order.
printErrorMessages(error, shouldShowStackTraces) ==
    IF isRequireESMError(error) THEN printEsmOnlyErrorMessage
    ELSE LET showStackTraces ==
                 \/ shouldShowStackTraces
                 \/ getErrorWithCategory(error).category = OTHER_CATEGORY
             messages == getErrorMessages(error)
         IN <<messages.formattedErrorMessage, EmptyLine>>
            \o (IF showStackTraces
                THEN <<StackTraceLine(error)>>
                     \o (IF IsSome(messages.postErrorStackTraceMessage)
                         THEN <<EmptyLine,
                                Get(messages.postErrorStackTraceMessage)>>
                         ELSE <<>>)
                ELSE IF IsSome(messages.showMoreInfoMessage)
                THEN <<Get(messages.showMoreInfoMessage)>>
                ELSE <<>>)

PrintError(error, shouldShowStackTraces) ==
    /\ helper' = [op |-> "printErrorMessages", error |-> error,
                  shouldShowStackTraces |-> shouldShowStackTraces,
                  printed |-> printErrorMessages(error, shouldShowStackTraces)]
    /\ UNCHANGED <<prepareStackTrace, callerStack, last, prev, synth, build, analyticsFile, clients>>

-----------------------------------------------------------------------------
(* Analytics client id.  Every await of getAnalyticsClientId is a point     *)
(* where other calls run; a call is at the await it will resume from.       *)

\* crypto.randomUUID(): a value no earlier call of the model has drawn.
UUIDs == 1..MaxCalls

GeneratedIds ==
    {Get(clients[i].clientId) :
        i \in {j \in DOMAIN clients : IsSome(clients[j].clientId)}}
    \cup (IF IsSome(analyticsFile) THEN {Get(analyticsFile)} ELSE {})

\* getAnalyticsClientId() is called: it is about to look for the file.
StartCall ==
    /\ Len(clients) < MaxCalls
    /\ clients' = Append(clients, [pc |-> "exists", clientId |-> None])
    /\ UNCHANGED <<prepareStackTrace, callerStack, last, prev, synth, build, helper, analyticsFile>>

\* await exists(filePath): absent, readAnalyticsClientId returns undefined.
FileExists(i) ==
    /\ i \in DOMAIN clients
    /\ clients[i].pc = "exists"
    /\ clients' = [clients EXCEPT ![i].pc =
                       IF IsSome(analyticsFile) THEN "readJsonFile"
                       ELSE "randomUUID"]
    /\ UNCHANGED <<prepareStackTrace, callerStack, last, prev, synth, build, helper, analyticsFile>>

\* await readJsonFile(filePath); the call returns data.analytics.clientId.
ReadFile(i) ==
    /\ i \in DOMAIN clients
    /\ clients[i].pc = "readJsonFile"
    /\ clients' = [clients EXCEPT ![i] =
                       [pc |-> "returned", clientId |-> analyticsFile]]
    /\ UNCHANGED <<prepareStackTrace, callerStack, last, prev, synth, build, helper, analyticsFile>>

\* clientId = crypto.randomUUID(); writeAnalyticsClientId awaits
\* getTelemetryDir before it writes.
GenerateId(i) ==
    /\ i \in DOMAIN clients
    /\ clients[i].pc = "randomUUID"
    /\ \E id \in UUIDs \ GeneratedIds :
          clients' = [clients EXCEPT ![i] =
                          [pc |-> "writeJsonFile", clientId |-> Some(id)]]
    /\ UNCHANGED <<prepareStackTrace, callerStack, last, prev, synth, build, helper, analyticsFile>>

\* await writeJsonFile(filePath, {analytics: {clientId}}); the call returns
\* the id it generated.
WriteFile(i) ==
    /\ i \in DOMAIN clients
    /\ clients[i].pc = "writeJsonFile"
    /\ analyticsFile' = clients[i].clientId
    /\ clients' = [clients EXCEPT ![i].pc = "returned"]
    /\ UNCHANGED <<prepareStackTrace, callerStack, last, prev, synth, build, helper>>

-----------------------------------------------------------------------------
(* Specifications.                                                          *)

Init ==
    /\ prepareStackTrace \in Hooks
    /\ callerStack = CallerFrames
    /\ last = NoCall
    /\ prev = NoCall
    /\ synth = NoSynth
    /\ build = NoBuild
    /\ helper = NoHelper
    /\ analyticsFile = None
    /\ clients = <<>>

\* Calls of the encoder, any inputs.
Next ==
    \/ \E fallbackMessage \in FallbackMessages, stackTrace \in StackTraces,
          passPrevious \in BOOLEAN :
           Encode(fallbackMessage, stackTrace, passPrevious)
    \/ Discard

Spec == Init /\ [][Next]_vars

\* Calls of the encoder, each possibly followed by a second call.
NextAgain ==
    \/ \E fallbackMessage \in FallbackMessages, stackTrace \in StackTraces,
          passPrevious \in BOOLEAN :
           \/ Encode(fallbackMessage, stackTrace, passPrevious)
           \/ EncodeAgain(fallbackMessage, stackTrace, passPrevious)
    \/ Discard

SpecAgain == Init /\ [][NextAgain]_vars

\* Single-frame runs of the synthesizers.
NextSynth ==
    \E entry \in AllEntries :
        SynthesizeCallSite(entry) \/ SynthesizeMessage(entry)

SpecSynth == Init /\ [][NextSynth]_vars

\* Runs of the validator.
NextBuild == \E results \in SolidityBuildResults : Validate(results)

SpecBuild == Init /\ [][NextBuild]_vars

\* Runs of the aggregator on validated results.
NextArtifacts ==
    \E results \in SuccessfulResultMaps, artifactsRootPath \in ArtifactsRootPaths :
        Aggregate(results, artifactsRootPath)

SpecArtifacts == Init /\ [][NextArtifacts]_vars

\* Runs of the test-suite selector.
NextSelect == SelectTestSuiteIds

SpecSelect == Init /\ [][NextSelect]_vars

\* Runs of the error printer.
NextPrint ==
    \E error \in ThrownValues, shouldShowStackTraces \in BOOLEAN :
        PrintError(error, shouldShowStackTraces)

SpecPrint == Init /\ [][NextPrint]_vars

\* Calls of getAnalyticsClientId, interleaved at their awaits.
NextAnalytics ==
    \/ StartCall
    \/ \E i \in 1..MaxCalls :
          \/ FileExists(i)
          \/ ReadFile(i)
          \/ GenerateId(i)
          \/ WriteFile(i)

SpecAnalytics == Init /\ [][NextAnalytics]_vars

-----------------------------------------------------------------------------
(* Claims.                                                                  *)

\* C1: after any call of encodeSolidityStackTrace, whether it returned or
\* raised, Error.prepareStackTrace is the value it held before the call.
C1_HookRestored ==
    last.called => prepareStackTrace = last.hookBefore

IsResultMap(results) == "entries" \in DOMAIN results

\* C2: on a map of per-file results the validator returns normally exactly
\* when every value is a cache hit or a build success, the map then has the
\* keys and values it had before the call, and one failed entry makes it
\* raise BUILD_FAILED however many other entries succeeded.
C2_ValidateGate ==
    (build.called /\ IsResultMap(build.before)) =>
        LET entries == build.before.entries
            failed == {i \in DOMAIN entries : entries[i].value.type = BUILD_FAILURE}
            passed == {i \in DOMAIN entries :
                          entries[i].value.type \in {CACHE_HIT, BUILD_SUCCESS}}
        IN /\ build.thrown = None <=> passed = DOMAIN entries
           /\ build.thrown = None => build.after = build.before
           /\ failed # {} => build.thrown = Some([descriptor |-> "BUILD_FAILED"])

\* C2 witness: a map with a failed entry next to a succeeded one was rejected.
C2_Witness ==
    /\ build.called
    /\ IsResultMap(build.before)
    /\ \E i, j \in DOMAIN build.before.entries :
          /\ build.before.entries[i].value.type = BUILD_FAILURE
          /\ build.before.entries[j].value.type = BUILD_SUCCESS
    /\ build.thrown = Some([descriptor |-> "BUILD_FAILED"])

IsJobCreationError(results) == "reason" \in DOMAIN results

\* C3 as stated: on a job-creation failure the validator raises
\* COMPILATION_JOB_CREATION_ERROR carrying the reason, rootFilePath and
\* buildProfile of the input, and never BUILD_FAILED.
C3_CarriesReason ==
    (build.called /\ IsJobCreationError(build.before)) =>
        /\ build.thrown # None
        /\ Get(build.thrown).descriptor = "COMPILATION_JOB_CREATION_ERROR"
        /\ Get(build.thrown).messageArguments.reason = build.before.reason
        /\ Get(build.thrown).messageArguments.rootFilePath =
               build.before.rootFilePath
        /\ Get(build.thrown).messageArguments.buildProfile =
               build.before.buildProfile

\* C3 amended: on a job-creation failure the validator raises
\* COMPILATION_JOB_CREATION_ERROR whose reason is the formattedReason of the
\* input and whose rootFilePath and buildProfile are those of the input, and
\* never BUILD_FAILED.
C3_CarriesFormattedReason ==
    (build.called /\ IsJobCreationError(build.before)) =>
        /\ build.thrown # None
        /\ Get(build.thrown).descriptor = "COMPILATION_JOB_CREATION_ERROR"
        /\ Get(build.thrown).messageArguments.reason =
               build.before.formattedReason
        /\ Get(build.thrown).messageArguments.rootFilePath =
               build.before.rootFilePath
        /\ Get(build.thrown).messageArguments.buildProfile =
               build.before.buildProfile

\* C3 witness: a job-creation failure was validated and an error raised.
C3_Witness ==
    /\ build.called
    /\ IsJobCreationError(build.before)
    /\ build.thrown # None

ReturnDataTypes ==
    {"REVERT_ERROR", "UNRECOGNIZED_CREATE_ERROR", "UNRECOGNIZED_CONTRACT_ERROR"}

HasSelector(d, selector) == Len(d) >= 4 /\ SubSeq(d, 1, 4) = selector

\* The return data is the ABI encoding of Error(string) / of Panic(uint256).
EncodedError(d) ==
    HasSelector(d, ERROR_SELECTOR)
    /\ IsSome(AbiDecodeString(SubSeq(d, 5, Len(d))))
EncodedPanic(d) ==
    HasSelector(d, PANIC_SELECTOR)
    /\ IsSome(AbiDecodeUint(SubSeq(d, 5, Len(d))))

\* The message the five-step priority of the claim gives.
PriorityMessage(d, isInvalidOpcodeError) ==
    IF EncodedError(d)
    THEN VM_EXCEPTION \o "reverted with reason string '"
         \o Get(AbiDecodeString(SubSeq(d, 5, Len(d)))) \o "'"
    ELSE IF EncodedPanic(d)
    THEN VM_EXCEPTION
         \o panicErrorCodeToMessage(Get(AbiDecodeUint(SubSeq(d, 5, Len(d)))))
    ELSE IF d # <<>>
    THEN VM_EXCEPTION
         \o "reverted with an unrecognized custom error (return data: 0x"
         \o BytesToHex(d) \o ")"
    ELSE IF isInvalidOpcodeError
    THEN VM_EXCEPTION \o "invalid opcode"
    ELSE "Transaction reverted without a reason string"

\* C4 as stated, on return data that decodes: for a last entry of any of the
\* three variants that carry return data the message follows the priority
\* Error(string), Panic(uint256), non-empty, empty with the invalid-opcode
\* flag, otherwise "without a reason string"; so "invalid opcode" is produced
\* only on empty return data.
C4_PriorityAllVariants ==
    (/\ synth.op = "getMessageFromLastStackTraceEntry"
     /\ synth.entry.type \in ReturnDataTypes
     /\ WellFormed(synth.entry.returnData)) =>
        /\ synth.result =
               Returned(Some(PriorityMessage(synth.entry.returnData,
                                             synth.entry.isInvalidOpcodeError)))
        /\ synth.result.msg = Some(INVALID_OPCODE_MESSAGE) =>
               synth.entry.returnData = <<>>

\* C4 amended: for a last entry of the unrecognized-create or
\* unrecognized-contract error variant the message follows the five-step
\* priority, and "invalid opcode" is produced only on empty return data; for
\* a revert error only Error(string) return data is decoded, and otherwise
\* the invalid-opcode flag alone decides between "invalid opcode" and
\* "without a reason string", whatever the return data; where the selector
\* of Error(string) or Panic(uint256) is followed by a payload that does not
\* decode and the variant decodes that selector, the synthesis raises.
C4_MessagePriority ==
    (/\ synth.op = "getMessageFromLastStackTraceEntry"
     /\ synth.entry.type \in ReturnDataTypes) =>
        LET d == synth.entry.returnData
            flag == synth.entry.isInvalidOpcodeError
        IN IF synth.entry.type = "REVERT_ERROR"
           THEN IF HasSelector(d, ERROR_SELECTOR)
                THEN IF EncodedError(d)
                     THEN synth.result = Returned(Some(PriorityMessage(d, flag)))
                     ELSE synth.result.raised
                ELSE synth.result =
                         Returned(Some(IF flag
                                       THEN VM_EXCEPTION \o "invalid opcode"
                                       ELSE "Transaction reverted without a reason string"))
           ELSE IF \/ HasSelector(d, ERROR_SELECTOR) /\ ~EncodedError(d)
                   \/ HasSelector(d, PANIC_SELECTOR) /\ ~EncodedPanic(d)
                THEN synth.result.raised
                ELSE /\ synth.result = Returned(Some(PriorityMessage(d, flag)))
                     /\ synth.result.msg = Some(INVALID_OPCODE_MESSAGE) =>
                            d = <<>>

\* C4 witness: non-empty unrecognized return data wins over the
\* invalid-opcode flag on an unrecognized-contract error.
C4_Witness ==
    /\ synth.op = "getMessageFromLastStackTraceEntry"
    /\ synth.entry.type = "UNRECOGNIZED_CONTRACT_ERROR"
    /\ synth.entry.returnData = RD_Custom
    /\ synth.entry.isInvalidOpcodeError
    /\ synth.result.msg =
           Some("VM Exception while processing transaction: reverted with an unrecognized custom error (return data: 0xdeadbeef0001)")

\* The call-site of a source reference, its function replaced by fn.
ReferenceSite(r, fn) ==
    [sourceName |-> Some(r.sourceName), contract |-> r.contract,
     functionName |-> fn, line |-> r.line]

FunctionOrUnknown(r) ==
    IF r.function = None THEN Some(UNKNOWN_FUNCTION_NAME) ELSE r.function

\* The rule table of the claim.
RuleTableSite(e) ==
    CASE e.type \in OverrideTypes ->
            ReferenceSite(Get(e.sourceReference), Some(UNRECOGNIZED_FUNCTION_NAME))
      [] e.type \in {"UNRECOGNIZED_CREATE_CALLSTACK_ENTRY",
                     "UNRECOGNIZED_CREATE_ERROR"} ->
            [sourceName |-> None, contract |-> Some(UNRECOGNIZED_CONTRACT_NAME),
             functionName |-> Some(CONSTRUCTOR_FUNCTION_NAME), line |-> None]
      [] e.type \in {"UNRECOGNIZED_CONTRACT_CALLSTACK_ENTRY",
                     "UNRECOGNIZED_CONTRACT_ERROR"} ->
            [sourceName |-> Some("0x" \o BytesToHex(e.address)),
             contract |-> Some(UNRECOGNIZED_CONTRACT_NAME),
             functionName |-> Some(UNKNOWN_FUNCTION_NAME), line |-> None]
      [] e.type = "PRECOMPILE_ERROR" ->
            [sourceName |-> None,
             contract |-> Some("<PrecompileContract " \o ToString(e.precompile)
                               \o ">"),
             functionName |-> Some(PRECOMPILE_FUNCTION_NAME), line |-> None]
      [] e.type = "INTERNAL_FUNCTION_CALLSTACK_ENTRY" ->
            [sourceName |-> Some(Get(e.sourceReference).sourceName),
             contract |-> Get(e.sourceReference).contract,
             functionName |-> Some("internal@" \o ToString(e.pc)),
             line |-> None]
      [] e.type \in CatchAllTypes
                    \cup {"PANIC_ERROR", "CONTRACT_CALL_RUN_OUT_OF_GAS_ERROR"} ->
            IF e.sourceReference # None
            THEN ReferenceSite(Get(e.sourceReference),
                               FunctionOrUnknown(Get(e.sourceReference)))
            ELSE [sourceName |-> None,
                  contract |-> Some(UNRECOGNIZED_CONTRACT_NAME),
                  functionName |-> Some(UNKNOWN_FUNCTION_NAME), line |-> None]
      [] OTHER ->
            ReferenceSite(Get(e.sourceReference),
                          FunctionOrUnknown(Get(e.sourceReference)))

\* C9: for every entry variant encodeStackTraceEntry returns the call-site
\* the rule table gives: the source reference with its function or the
\* unknown-function label; the function forced to the unrecognized-function
\* label for the two selector variants; the fixed placeholders for
\* unrecognized creates, unrecognized contracts (the address as file name)
\* and precompiles; internal@<pc> for internal calls; and for out-of-gas and
\* the catch-all group the source-reference rule when a reference is present,
\* the unrecognized-contract placeholder without a file otherwise.
C9_CallSiteRules ==
    (/\ synth.op = "encodeStackTraceEntry"
     /\ synth.entry.type # UNKNOWN_ENTRY_TYPE) =>
        synth.site = Some(RuleTableSite(synth.entry))

\* C9 witness: a missing-fallback entry whose reference names a function got
\* the unrecognized-function label.
C9_Witness ==
    /\ synth.op = "encodeStackTraceEntry"
    /\ synth.entry.type = "MISSING_FALLBACK_OR_RECEIVE_ERROR"
    /\ Get(synth.entry.sourceReference).function = Some("f")
    /\ synth.site =
           Some([sourceName |-> Some("A.sol"), contract |-> Some("A"),
                 functionName |-> Some("<unrecognized-selector>"),
                 line |-> Some(10)])

\* The frames the hook of a call starts from: the caller's array when it was
\* passed, V8's frames less the first otherwise.
BaseFrames(call) ==
    IF call.passPrevious THEN call.callerBefore ELSE Spliced(NativeStack)

\* How many call-sites the call put before the frames it started from, in
\* the list it handed to the previously-installed hook.
SynthesizedCount(call) == Len(Get(call.handed)) - Len(BaseFrames(call))

IsKnownEntry(entry) == entry.type # UNKNOWN_ENTRY_TYPE
KnownEntries(stackTrace) == SelectSeq(stackTrace, IsKnownEntry)

RECURSIVE BottomHook(_)
BottomHook(hook) ==
    IF hook.kind = "encode" THEN BottomHook(hook.previousPrepareStackTrace)
    ELSE hook

\* C5 as stated: every entry of the trace contributes exactly one call-site
\* to the list handed to the previously-installed hook, an entry of a variant
\* without a call-site rule included.
C5_OneCallSitePerEntry ==
    (last.called /\ last.handed # None) =>
        SynthesizedCount(last) = Len(last.stackTrace)

\* C5 amended: every entry of a variant that has a call-site rule contributes
\* exactly one call-site to the list handed to the previously-installed hook;
\* an entry of a variant without a rule does not make the call raise, and it
\* is skipped: it contributes no call-site.
C5_OneCallSitePerKnownEntry ==
    last.called =>
        /\ last.handed # None =>
              SynthesizedCount(last) = Len(KnownEntries(last.stackTrace))
        /\ (/\ ~IsKnownEntry(last.stackTrace[Len(last.stackTrace)])
            /\ BottomHook(last.hookBefore).kind = "user") =>
              last.outcome = "returned"

\* C5 witness: a call on a trace that ends in an entry of an unknown variant
\* returned, one call-site handed over for its two entries.
C5_Witness ==
    /\ last.called
    /\ last.outcome = "returned"
    /\ last.stackTrace = <<E_Call, E_Unknown>>
    /\ SynthesizedCount(last) = 1

\* C6 as stated: the synthesized call-sites head the list handed to the
\* previously-installed hook in trace order, outermost call first.
C6_TraceOrder ==
    (last.called /\ last.handed # None) =>
        LET known == KnownEntries(last.stackTrace)
        IN \A i \in 1..Len(known) :
              Get(last.handed)[i] = Get(encodeStackTraceEntry(known[i]))

\* C6 amended: the synthesized call-sites come before every frame the hook
\* started from, native frames included, in reverse trace order: the
\* call-site of the innermost (last) entry is first and, for entries i < j,
\* the call-site of j precedes the call-site of i.
C6_ReverseTraceOrder ==
    (last.called /\ last.handed # None) =>
        LET known == KnownEntries(last.stackTrace)
            m == Len(known)
            handed == Get(last.handed)
        IN /\ Len(handed) = m + Len(BaseFrames(last))
           /\ \A i \in 1..m :
                 handed[m + 1 - i] = Get(encodeStackTraceEntry(known[i]))
           /\ SubSeq(handed, m + 1, Len(handed)) = BaseFrames(last)

\* C6 witness: a call on a call-stack entry followed by a panic returned, the
\* call-site of the panic first and the native frames last.
C6_Witness ==
    /\ last.called
    /\ last.outcome = "returned"
    /\ ~last.passPrevious
    /\ last.stackTrace = <<E_Call, E_Panic>>
    /\ Get(last.handed) =
           <<[sourceName |-> Some("A.sol"), contract |-> Some("A"),
              functionName |-> Some("f"), line |-> Some(10)],
             [sourceName |-> Some("B.sol"), contract |-> Some("B"),
              functionName |-> Some("<unknown>"), line |-> Some(7)],
             [native |-> "encodeSolidityStackTrace"],
             [native |-> "caller"]>>

\* C7 as stated: the message of the returned error is never empty, for every
\* fallbackMessage and every non-empty trace.
C7_MessageNeverEmpty ==
    (last.called /\ last.outcome = "returned") => last.message # ""

\* C7 amended: the message of the returned error is the synthesized message
\* of the last entry, which is never empty, or the caller-supplied fallback
\* when the synthesizer yields nothing; it is never empty when
\* fallbackMessage is not empty.
C7_MessageOrFallback ==
    (last.called /\ last.outcome = "returned") =>
        /\ last.usedFallback => last.message = last.fallbackMessage
        /\ ~last.usedFallback => last.message # ""
        /\ last.fallbackMessage # "" => last.message # ""

\* C7 witness: a returned error whose message is the caller's fallback.
C7_Witness ==
    /\ last.called
    /\ last.outcome = "returned"
    /\ last.usedFallback
    /\ last.message = "Transaction failed"

\* The variants getMessageFromLastStackTraceEntry has no case for.
NoMessageRuleTypes ==
    {"CALLSTACK_ENTRY", "UNRECOGNIZED_CREATE_CALLSTACK_ENTRY",
     "UNRECOGNIZED_CONTRACT_CALLSTACK_ENTRY",
     "INTERNAL_FUNCTION_CALLSTACK_ENTRY", UNKNOWN_ENTRY_TYPE}

\* C8: the message of the returned error depends on the last entry and on
\* fallbackMessage only: two calls with the same last entry and the same
\* fallbackMessage give the same message whatever the entries before, and
\* the fallback is the message exactly when the variant of the last entry
\* has no message rule.
C8_MessageFromLastEntry ==
    /\ (/\ prev.called /\ last.called
        /\ prev.outcome = "returned" /\ last.outcome = "returned"
        /\ prev.fallbackMessage = last.fallbackMessage
        /\ prev.stackTrace[Len(prev.stackTrace)] =
               last.stackTrace[Len(last.stackTrace)]) =>
           prev.message = last.message
    /\ (last.called /\ last.outcome = "returned") =>
           /\ last.usedFallback <=>
                 last.stackTrace[Len(last.stackTrace)].type
                     \in NoMessageRuleTypes
           /\ last.usedFallback => last.message = last.fallbackMessage

\* C8 witness: two returned calls on different traces with the same last
\* entry, both with the synthesized message of that entry.
C8_Witness ==
    /\ prev.called /\ last.called
    /\ prev.outcome = "returned" /\ last.outcome = "returned"
    /\ prev.stackTrace = <<E_Panic>>
    /\ last.stackTrace = <<E_Call, E_Panic>>
    /\ ~last.usedFallback
    /\ prev.message = last.message

\* The synthetic call-sites of the stack rendered for a returned error.
RenderedFrames(call) == SelectSeq(Get(call.stack).frames, IsSolidityCallSite)

\* C10: two successive calls with the same fallbackMessage, the same trace
\* and the same previousStack argument return errors with the same message
\* and the same sequence of synthetic frames.
C10_Idempotent ==
    (/\ prev.called /\ last.called
     /\ prev.outcome = "returned" /\ last.outcome = "returned"
     /\ prev.fallbackMessage = last.fallbackMessage
     /\ prev.stackTrace = last.stackTrace
     /\ prev.passPrevious = last.passPrevious) =>
        /\ prev.message = last.message
        /\ RenderedFrames(prev) = RenderedFrames(last)

\* The number of artifact paths of the entries before entry i.
RECURSIVE PathsBefore(_, _)
PathsBefore(entries, i) ==
    IF i <= 1 THEN 0
    ELSE PathsBefore(entries, i - 1)
         + Len(entries[i - 1].value.contractArtifactsGenerated)

\* The compiler version recorded for a build id, and the contract an
\* artifact path holds.
VersionOfBuild(buildId) == IF buildId = "b1" THEN "0.8.24" ELSE "0.8.28"
ContractAt(artifactPath) ==
    CASE artifactPath = "artifacts/A.json" -> "A"
      [] artifactPath = "artifacts/B.json" -> "B"
      [] artifactPath = "artifacts/C.json" -> "C"

\* C11: when getArtifacts returns it returns one record per generated
\* artifact path of every entry of the results map, cache hits included: as
\* many records as there are paths, in map order and within an entry in path
\* order, each with the key of its entry as source and the compiler version
\* of the build-info file of the entry's buildId.
C11_OneRecordPerArtifactPath ==
    (helper.op = "getArtifacts" /\ ~helper.outcome.raised) =>
        LET entries == helper.results.entries
            artifacts == helper.outcome.artifacts
        IN /\ Len(artifacts) = PathsBefore(entries, Len(entries) + 1)
           /\ \A i \in DOMAIN entries :
                 \A j \in DOMAIN entries[i].value.contractArtifactsGenerated :
                    LET a == artifacts[PathsBefore(entries, i) + j]
                    IN /\ a.id.source = entries[i].key
                       /\ a.id.solcVersion =
                              VersionOfBuild(entries[i].value.buildId)
                       /\ a.id.name =
                              ContractAt(entries[i].value.contractArtifactsGenerated[j])

\* C11 witness: a cache hit with one artifact after a build success with
\* two gave three records, the cache hit's last.
C11_Witness ==
    /\ helper.op = "getArtifacts"
    /\ ~helper.outcome.raised
    /\ Len(helper.results.entries) = 2
    /\ helper.results.entries[1].value.type = BUILD_SUCCESS
    /\ helper.results.entries[2].value.type = CACHE_HIT
    /\ Len(helper.outcome.artifacts) = 3
    /\ helper.outcome.artifacts[3].id =
           [name |-> "A", solcVersion |-> "0.8.24",
            source |-> helper.results.entries[2].key]

\* The projectRoot-relative form of the candidate paths of the model that
\* end in ".t.sol".
RelativeTestPaths(rootFilePaths) ==
    (IF \E i \in DOMAIN rootFilePaths : rootFilePaths[i] = P_ATest
     THEN {S_ATest} ELSE {})
    \cup
    (IF \E i \in DOMAIN rootFilePaths : rootFilePaths[i] = P_OutTest
     THEN {S_OutTest} ELSE {})

IsTestSuiteOf(rootFilePaths, id) == id.source \in RelativeTestPaths(rootFilePaths)

\* C12: getTestSuiteIds returns exactly the ids of the artifacts whose source
\* is the projectRoot-relative form of a candidate path that ends in
\* ".t.sol", in the order and with the multiplicity of the artifacts
\* sequence; an artifact whose source comes only from a candidate without the
\* suffix is not returned.
C12_TestSuiteIds ==
    helper.op = "getTestSuiteIds" =>
        LET ids == [i \in DOMAIN helper.artifacts |-> helper.artifacts[i].id]
            expected == {i \in DOMAIN ids :
                            IsTestSuiteOf(helper.rootFilePaths, ids[i])}
        IN /\ Len(helper.ids) = Cardinality(expected)
           /\ \A k \in DOMAIN helper.ids :
                 \E i \in expected :
                    /\ helper.ids[k] = ids[i]
                    /\ Cardinality({j \in expected : j < i}) = k - 1

\* C12 witness: candidates <<b.sol, a.t.sol>> and artifacts sourced from
\* a.t.sol and b.sol gave the id of the a.t.sol artifact alone.
C12_Witness ==
    /\ helper.op = "getTestSuiteIds"
    /\ helper.rootFilePaths = <<P_B, P_ATest>>
    /\ Len(helper.artifacts) = 2
    /\ helper.artifacts[1].id.source = S_ATest
    /\ helper.artifacts[2].id.source = S_B
    /\ helper.ids = <<helper.artifacts[1].id>>

Printed(lineKind) ==
    \E i \in DOMAIN helper.printed : helper.printed[i].line = lineKind

\* C13: printErrorMessages prints the stack trace of every error when
\* shouldShowStackTraces is true; when it is false it prints the stack trace
\* only for errors of category OTHER, and for the other categories it prints
\* the show-more-info message instead.
C13_StackTraceShown ==
    helper.op = "printErrorMessages" =>
        LET category == getErrorWithCategory(helper.error).category
        IN IF helper.shouldShowStackTraces
           THEN Printed("stackTrace")
           ELSE /\ Printed("stackTrace") <=> category = OTHER_CATEGORY
                /\ category # OTHER_CATEGORY =>
                       Printed("showMoreInfoMessage")

\* C14: encodeSolidityStackTrace does not modify the previousStack array of
\* its caller: after the call the array holds the frames it held before, so
\* two calls that pass the same array with the same trace hand the same
\* number of frames to the previously-installed hook.
C14_PreviousStackUnchanged ==
    /\ last.called => callerStack = last.callerBefore
    /\ (/\ prev.called /\ last.called
        /\ prev.passPrevious /\ last.passPrevious
        /\ prev.stackTrace = last.stackTrace
        /\ prev.handed # None /\ last.handed # None) =>
           Len(Get(prev.handed)) = Len(Get(last.handed))

WellFormedEntry(entry) ==
    "returnData" \in DOMAIN entry => WellFormed(entry.returnData)

\* C15: encodeSolidityStackTrace returns an error without raising for every
\* non-empty trace of entries of recognised variants with well-formed return
\* data, whether a hook was installed before the call or
\* Error.prepareStackTrace was undefined.
C15_ReturnsWithoutRaising ==
    (/\ last.called
     /\ \A i \in DOMAIN last.stackTrace :
           /\ IsKnownEntry(last.stackTrace[i])
           /\ WellFormedEntry(last.stackTrace[i])) =>
        last.outcome = "returned"

\* C16: getAnalyticsClientId returns a stable id: once a call has returned an
\* id, every call that returns returns that id and the analytics file stores
\* it, also when two calls overlap and both find no file.
C16_StableClientId ==
    \A i \in DOMAIN clients :
        clients[i].pc = "returned" =>
            /\ analyticsFile = clients[i].clientId
            /\ \A j \in DOMAIN clients :
                  clients[j].pc = "returned" =>
                      clients[j].clientId = clients[i].clientId

====
